---- MODULE Spec2Model ----
(***************************************************************************)
(* Dice Probability Visualizer (dice/src/app/page.tsx).                    *)
(*                                                                         *)
(* A JavaScript string is a sequence of one-character strings.  A          *)
(* JavaScript number is an integer; the one non-integer the parser can     *)
(* produce, NaN, is the value NaN below, which no parsed numeral of the    *)
(* modelled lengths can equal.  Every comparison with NaN goes through     *)
(* LessThan, which is false for NaN as in JavaScript.                      *)
(*                                                                         *)
(* Two specifications share the variables:                                 *)
(*   FnSpec  the functions parseDiceExpression, getExactDistribution and   *)
(*           getMonteCarloDistribution applied to one input string;        *)
(*   Spec    the component Home: its state hooks, its event handlers and   *)
(*           its effect.                                                   *)
(***************************************************************************)
EXTENDS Integers, Sequences, FiniteSets, TLC

VARIABLES
    expression,      \* useState("1d6"): the text of the input box
    numSimulations,  \* useState(1000): the simulation count
    operation,       \* useState("sum")
    distribution,    \* useState([]): the stored outcome sequence
    error,           \* useState(""): the message shown in red
    useMonteCarlo,   \* useState(true)
    shouldCompute,   \* useState(false)
    effectPending,   \* a render changed a dependency of the effect; it has not run yet
    computations,    \* calls of computeDistribution since a handler last changed the state
    pc,              \* FnSpec: which function has been applied to the input
    parsed,          \* FnSpec: what parseDiceExpression(expression) did
    exactResults,    \* FnSpec: what getExactDistribution returned
    mcResults        \* FnSpec: what getMonteCarloDistribution returned

vars == <<expression, numSimulations, operation, distribution, error,
          useMonteCarlo, shouldCompute, effectPending, computations,
          pc, parsed, exactResults, mcResults>>

uiVars == <<operation, distribution, error, useMonteCarlo, shouldCompute, effectPending,
            computations>>
fnVars == <<pc, parsed, exactResults, mcResults>>

----------------------------------------------------------------------------
(* Bounds of the model. *)

\* longest input string enumerated character by character
MaxLen == 4
\* largest simulation count
MaxSims == 2
\* an evaluator is applied only to at most this many dice in total
MaxDice == 5
\* an evaluator is applied only to dice of at most this many sides
MaxSides == 6

----------------------------------------------------------------------------
(* Numbers and strings of JavaScript. *)

NaN == 0 - 1000000000

IsNaN(x) == x = NaN

\* a < b of JavaScript: false when either side is NaN
LessThan(a, b) == ~IsNaN(a) /\ ~IsNaN(b) /\ a < b

DecDigits == <<"0", "1", "2", "3", "4", "5", "6", "7", "8", "9">>

HexDigits == <<"0", "1", "2", "3", "4", "5", "6", "7", "8", "9",
               "a", "b", "c", "d", "e", "f">>

\* the letters A-F read as hexadecimal digits like a-f
LowerCase(c) ==
    CASE c = "A" -> "a" [] c = "B" -> "b" [] c = "C" -> "c"
      [] c = "D" -> "d" [] c = "E" -> "e" [] c = "F" -> "f"
      [] OTHER -> c

\* the value of the digit c in the digit sequence ds, or -1 when c is no such digit
DigitValue(ds, c) ==
    IF \E i \in 1..Len(ds) : ds[i] = LowerCase(c)
    THEN (CHOOSE i \in 1..Len(ds) : ds[i] = LowerCase(c)) - 1
    ELSE 0 - 1

\* \s of a JavaScript regular expression, and the white space parseInt skips
IsWhiteSpace(c) == c \in {" ", "\t", "\n", "\r"}

\* s from its i-th character on
Drop(s, i) == SubSeq(s, i, Len(s))

\* the number of leading characters of s that are digits of ds
RECURSIVE PrefixLen(_, _)
PrefixLen(ds, s) ==
    IF s = <<>> \/ DigitValue(ds, Head(s)) < 0 THEN 0 ELSE 1 + PrefixLen(ds, Tail(s))

\* the value of the numeral s (all digits of ds) in radix Len(ds), most significant first
RECURSIVE NumeralValue(_, _, _)
NumeralValue(ds, s, acc) ==
    IF s = <<>> THEN acc
    ELSE NumeralValue(ds, Tail(s), acc * Len(ds) + DigitValue(ds, Head(s)))

\* s without its leading white space
RECURSIVE TrimStart(_)
TrimStart(s) ==
    IF s # <<>> /\ IsWhiteSpace(Head(s)) THEN TrimStart(Tail(s)) ELSE s

\* parseInt(s) with no radix: leading white space, a sign, "0x" for hexadecimal,
\* then the longest prefix of digits; NaN when there is no digit
parseInt(s) ==
    LET t      == TrimStart(s)
        neg    == t # <<>> /\ Head(t) = "-"
        signed == t # <<>> /\ Head(t) \in {"+", "-"}
        u      == IF signed THEN Tail(t) ELSE t
        hex    == Len(u) >= 2 /\ u[1] = "0" /\ u[2] \in {"x", "X"}
        ds     == IF hex THEN HexDigits ELSE DecDigits
        body   == IF hex THEN Drop(u, 3) ELSE u
        n      == PrefixLen(ds, body)
        v      == NumeralValue(ds, SubSeq(body, 1, n), 0)
    IN  IF n = 0 THEN NaN ELSE IF neg THEN 0 - v ELSE v

\* s.includes(c)
Includes(s, c) == \E i \in 1..Len(s) : s[i] = c

\* s.split(sep) for a one-character separator: always at least one component
RECURSIVE Split(_, _)
Split(s, sep) ==
    IF ~Includes(s, sep) THEN <<s>>
    ELSE LET i == CHOOSE k \in 1..Len(s) :
                      s[k] = sep /\ \A j \in 1..(k - 1) : s[j] # sep
         IN  <<SubSeq(s, 1, i - 1)>> \o Split(Drop(s, i + 1), sep)

\* s.replace(/\s+/g, ''): what the comment "Remove all whitespace" announces
StripWhiteSpace(s) == SelectSeq(s, LAMBDA c : ~IsWhiteSpace(c))

----------------------------------------------------------------------------
(* parseDiceExpression *)

\* the outcome of a call: a value returned, or an Error thrown with a message
Returned(v) == [threw |-> FALSE, value |-> v, message |-> ""]
Thrown(m)   == [threw |-> TRUE, value |-> <<>>, message |-> m]

BaseDiceMessage ==
    "Invalid base dice expression. Use format like '1d6' or constant '1'"

\* expr.match(/^(\d+)d(\d+)$/): the two groups, or <<>> for null
MatchDice(expr) ==
    LET n    == PrefixLen(DecDigits, expr)
        rest == Drop(expr, n + 2)
    IN  IF /\ n >= 1
           /\ Len(expr) >= n + 2
           /\ expr[n + 1] = "d"
           /\ PrefixLen(DecDigits, rest) = Len(rest)
        THEN <<SubSeq(expr, 1, n), rest>>
        ELSE <<>>

\* parseNode with the two groups of the match taken in the wrong order
parseNodeSwapped(expr) ==
    IF Includes(expr, "d")
    THEN LET match == MatchDice(expr)
         IN  IF match = <<>>
             THEN Thrown(BaseDiceMessage)
             ELSE Returned([trial |-> parseInt(match[2]), sides |-> parseInt(match[1])])
    ELSE Returned([trial |-> parseInt(expr), sides |-> 1])

parseNode(expr) ==
    IF Includes(expr, "d")
    THEN LET match == MatchDice(expr)
         IN  IF match = <<>>
             THEN Thrown(BaseDiceMessage)
             ELSE Returned([trial |-> parseInt(match[1]), sides |-> parseInt(match[2])])
    ELSE Returned([trial |-> parseInt(expr), sides |-> 1])

\* the components are parsed in order; the first that throws ends the call
parseDiceExpression(e) ==
    LET components == Split(e, "+")
        nodes      == [i \in 1..Len(components) |-> parseNode(components[i])]
    IN  IF \E i \in 1..Len(nodes) : nodes[i].threw
        THEN nodes[CHOOSE i \in 1..Len(nodes) :
                       nodes[i].threw /\ \A j \in 1..(i - 1) : ~nodes[j].threw]
        ELSE Returned([i \in 1..Len(nodes) |-> nodes[i].value])

----------------------------------------------------------------------------
(* getExactDistribution *)

\* how often "for (let i = 0; i < n; i++)" runs its body
LoopCount(n) == IF LessThan(0, n) THEN n ELSE 0

\* aug with j pushed instead of j + 1
AugZeroBased(sides) == [j \in 1..LoopCount(sides) |-> j - 1]

\* aug: the faces 1..sides, pushed by the loop over j
Aug(sides) == [j \in 1..LoopCount(sides) |-> j]

\* results.flatMap(x => aug.map(y => x + y)): for each x in order, each y in order
FlatMapAdd(results, aug) ==
    [k \in 1..(Len(results) * Len(aug)) |->
        results[((k - 1) \div Len(aug)) + 1] + aug[((k - 1) % Len(aug)) + 1]]

\* the loop over i of one roll: one flatMap per die
RECURSIVE ExactRoll(_, _, _)
ExactRoll(results, roll, i) ==
    IF LessThan(i, roll.trial)
    THEN ExactRoll(FlatMapAdd(results, Aug(roll.sides)), roll, i + 1)
    ELSE results

\* the loop over diceRolls, from the k-th roll on
RECURSIVE ExactFrom(_, _, _)
ExactFrom(results, diceRolls, k) ==
    IF k > Len(diceRolls) THEN results
    ELSE ExactFrom(ExactRoll(results, diceRolls[k], 0), diceRolls, k + 1)

getExactDistribution(diceRolls) == ExactFrom(<<0>>, diceRolls, 1)

----------------------------------------------------------------------------
(* getMonteCarloDistribution *)

\* the faces without the "+ 1"
FacesZeroBased(sides) ==
    IF IsNaN(sides) THEN {NaN}
    ELSE IF sides >= 1 THEN 0..(sides - 1)
    ELSE sides..0

\* the values Math.floor(Math.random() * sides) + 1 can take, Math.random() in [0, 1)
Faces(sides) ==
    IF IsNaN(sides) THEN {NaN}
    ELSE IF sides >= 1 THEN 1..sides
    ELSE (sides + 1)..1

\* a + b of JavaScript
Add(a, b) == IF IsNaN(a) \/ IsNaN(b) THEN NaN ELSE a + b

\* the sides of every single die, in the order the two inner loops roll them
RECURSIVE DieSides(_, _)
DieSides(diceRolls, k) ==
    IF k > Len(diceRolls) THEN <<>>
    ELSE [j \in 1..LoopCount(diceRolls[k].trial) |-> diceRolls[k].sides]
         \o DieSides(diceRolls, k + 1)

\* every sequence of faces the random source can yield for one simulation
RECURSIVE DrawSeqs(_)
DrawSeqs(sidesSeq) ==
    IF sidesSeq = <<>> THEN {<<>>}
    ELSE {<<f>> \o rest : f \in Faces(Head(sidesSeq)), rest \in DrawSeqs(Tail(sidesSeq))}

\* current after the faces of one simulation have been added to 0
RECURSIVE Current(_, _)
Current(acc, faces) ==
    IF faces = <<>> THEN acc ELSE Current(Add(acc, Head(faces)), Tail(faces))

\* every choice of the random source for n simulations
Draws(diceRolls, n) == [1..LoopCount(n) -> DrawSeqs(DieSides(diceRolls, 1))]

\* the results, given the faces draws[i] the random source yields in simulation i
getMonteCarloDistribution(diceRolls, n, draws) ==
    [i \in 1..LoopCount(n) |-> Current(0, draws[i])]

----------------------------------------------------------------------------
(* The inputs of the functions. *)

\* the characters of the enumerated inputs: digits, d, +, a sign, white space and
\* one character that is none of these
Alphabet == {"0", "1", "2", "d", "+", "-", " ", "x"}

StringsUpTo(n) == UNION {[1..k -> Alphabet] : k \in 0..n}

\* longer inputs: the expressions of the documentation and the placeholder text
Examples ==
    { <<"5">>,
      <<"2", "d", "6">>,
      <<"1", "d", "6">>,
      <<"d", "6">>,
      <<"1", "x", "6">>,
      <<"0", "d", "6">>,
      <<"1", "d", "2", "+", "1">>,
      <<"1", "d", "6", "+", "1", "d", "6">>,
      <<"1", "d", "2", "+", "1", "d", "2">>,
      <<"2", "d", "2", "+", "1", "d", "2">>,
      <<"1", "d", "2", "+", "2", "+", "1", "d", "2">>,
      <<"1", "d", "2", "+", "1", "d", "0">>,
      <<"1", "d", "6", " ", "+", " ", "2", "d", "4">>,
      <<"1", "d", "2", " ", "+", " ", "1", "d", "2">>,
      <<"1", "d", "2", "-", "1", "d", "2">>,
      <<"1", "d", "2", "*", "1", "d", "2">>,
      <<"1", "d", "2", "/", "1", "d", "2">>,
      <<"1", "d", "2", "*", "2">>,
      <<"2", "*", "1", "d", "2">>,
      <<"1", "d", "2", "+", "2", "*", "2">>,
      <<"(", "1", "d", "2", "+", "1", ")", "*", "2">>,
      <<"(", "2", "d", "6", "+", "1", "d", "4", ")", "*", "2">> }

Inputs == StringsUpTo(MaxLen) \cup Examples

\* the dice of diceRolls are few and small enough for an evaluator to enumerate
RECURSIVE TotalDice(_, _)
TotalDice(diceRolls, k) ==
    IF k > Len(diceRolls) THEN 0
    ELSE LoopCount(diceRolls[k].trial) + TotalDice(diceRolls, k + 1)

Bounded(diceRolls) ==
    /\ TotalDice(diceRolls, 1) <= MaxDice
    /\ \A k \in 1..Len(diceRolls) : LoopCount(diceRolls[k].sides) <= MaxSides

SimulationCounts == 0..MaxSims

----------------------------------------------------------------------------
(* FnSpec: parse one input, then evaluate it exactly, then sample it. *)

\* the state of the component after construction: the arguments of useState
HomeInit ==
    /\ operation = "sum"
    /\ distribution = <<>>
    /\ error = ""
    /\ useMonteCarlo = TRUE
    /\ shouldCompute = FALSE
    /\ effectPending = TRUE
    /\ computations = 0

FnInit ==
    /\ expression \in Inputs
    /\ numSimulations = 0
    /\ HomeInit
    /\ pc = "start"
    /\ parsed = Returned(<<>>)
    /\ exactResults = <<>>
    /\ mcResults = <<>>

CallParse ==
    /\ pc = "start"
    /\ parsed' = parseDiceExpression(expression)
    /\ pc' = IF parsed'.threw THEN "thrown" ELSE "parsed"
    /\ UNCHANGED <<expression, numSimulations, exactResults, mcResults>>
    /\ UNCHANGED uiVars

CallExact ==
    /\ pc = "parsed"
    /\ Bounded(parsed.value)
    /\ exactResults' = getExactDistribution(parsed.value)
    /\ pc' = "exact"
    /\ UNCHANGED <<expression, numSimulations, parsed, mcResults>>
    /\ UNCHANGED uiVars

CallMonteCarlo ==
    /\ pc = "exact"
    /\ \E n \in SimulationCounts :
         \E draws \in Draws(parsed.value, n) :
            /\ numSimulations' = n
            /\ mcResults' = getMonteCarloDistribution(parsed.value, n, draws)
    /\ pc' = "sampled"
    /\ UNCHANGED <<expression, parsed, exactResults>>
    /\ UNCHANGED uiVars

FnNext == CallParse \/ CallExact \/ CallMonteCarlo

FnSpec == FnInit /\ [][FnNext]_vars

----------------------------------------------------------------------------
(* The component Home: state, computeDistribution, the effect, the handlers. *)

InitialExpression == <<"1", "d", "6">>

\* useState(1000), scaled down to the largest simulation count of the model
InitialSimulations == MaxSims

\* the texts the user puts into the expression box
UIExpressions ==
    { InitialExpression,
      <<>>,
      <<"5">>,
      <<"d", "6">>,
      <<"1", "x", "6">>,
      <<"1", "d", "0">> }

\* the texts of the number box: empty, or one digit
SimulationTexts == {<<>>} \cup {<<DecDigits[n + 1]>> : n \in SimulationCounts}

Operations == {"sum", "min", "max"}

\* the choices of the random source computeDistribution can meet
EffectDraws ==
    LET r == parseDiceExpression(expression)
    IN  IF ~r.threw /\ useMonteCarlo THEN Draws(r.value, numSimulations) ELSE {<<>>}

\* computeDistribution with the distribution emptied when parsing throws
computeDistributionClearing(draws) ==
    LET r == parseDiceExpression(expression)
    IN  IF r.threw
        THEN /\ error' = r.message
             /\ distribution' = <<>>
        ELSE /\ distribution' =
                    IF useMonteCarlo
                    THEN getMonteCarloDistribution(r.value, numSimulations, draws)
                    ELSE getExactDistribution(r.value)
             /\ error' = ""

\* try { parse; evaluate; setDistribution; setError("") } catch { setError(message) }
computeDistribution(draws) ==
    LET r == parseDiceExpression(expression)
    IN  IF r.threw
        THEN /\ error' = r.message
             /\ distribution' = distribution
        ELSE /\ distribution' =
                    IF useMonteCarlo
                    THEN getMonteCarloDistribution(r.value, numSimulations, draws)
                    ELSE getExactDistribution(r.value)
             /\ error' = ""

\* the effect without its condition: it computes whenever it runs
RunEffectUngated ==
    /\ pc = "home"
    /\ effectPending
    /\ \E draws \in EffectDraws : computeDistribution(draws)
    /\ computations' = computations + 1
    /\ shouldCompute' = FALSE
    /\ effectPending' = shouldCompute
    /\ UNCHANGED <<expression, numSimulations, operation, useMonteCarlo>>
    /\ UNCHANGED fnVars

\* the effect runs after a render in which one of its dependencies changed; it
\* runs before the next event is handled.  setShouldCompute(false) changes a
\* dependency when shouldCompute was true, and the effect then runs once more.
RunEffect ==
    /\ pc = "home"
    /\ effectPending
    /\ IF useMonteCarlo \/ shouldCompute
       THEN /\ \E draws \in EffectDraws : computeDistribution(draws)
            /\ computations' = computations + 1
            /\ shouldCompute' = FALSE
            /\ effectPending' = shouldCompute
       ELSE /\ effectPending' = FALSE
            /\ UNCHANGED <<distribution, error, shouldCompute, computations>>
    /\ UNCHANGED <<expression, numSimulations, operation, useMonteCarlo>>
    /\ UNCHANGED fnVars

\* onChange of the expression box
SetExpression(s) ==
    /\ pc = "home"
    /\ ~effectPending
    /\ expression' = s
    /\ effectPending' = (s # expression)
    /\ computations' = IF s # expression THEN 0 ELSE computations
    /\ UNCHANGED <<numSimulations, operation, distribution, error,
                   useMonteCarlo, shouldCompute>>
    /\ UNCHANGED fnVars

\* onChange of the number box, which is rendered in Monte Carlo mode only
SetNumSimulations(text) ==
    /\ pc = "home"
    /\ ~effectPending
    /\ useMonteCarlo
    /\ numSimulations' = parseInt(text)
    /\ effectPending' = (numSimulations' # numSimulations)
    /\ computations' = IF numSimulations' # numSimulations THEN 0 ELSE computations
    /\ UNCHANGED <<expression, operation, distribution, error,
                   useMonteCarlo, shouldCompute>>
    /\ UNCHANGED fnVars

\* onChange of the select
SetOperation(op) ==
    /\ pc = "home"
    /\ ~effectPending
    /\ operation' = op
    /\ effectPending' = (op # operation)
    /\ computations' = IF op # operation THEN 0 ELSE computations
    /\ UNCHANGED <<expression, numSimulations, distribution, error,
                   useMonteCarlo, shouldCompute>>
    /\ UNCHANGED fnVars

\* onChange of the checkbox: e.target.checked is the opposite of what was shown
SetUseMonteCarlo ==
    /\ pc = "home"
    /\ ~effectPending
    /\ useMonteCarlo' = ~useMonteCarlo
    /\ effectPending' = TRUE
    /\ computations' = 0
    /\ UNCHANGED <<expression, numSimulations, operation, distribution, error,
                   shouldCompute>>
    /\ UNCHANGED fnVars

\* onClick of the Compute button, which is rendered in exact mode only
ClickCompute ==
    /\ pc = "home"
    /\ ~effectPending
    /\ ~useMonteCarlo
    /\ shouldCompute' = TRUE
    /\ effectPending' = ~shouldCompute
    /\ computations' = IF ~shouldCompute THEN 0 ELSE computations
    /\ UNCHANGED <<expression, numSimulations, operation, distribution, error,
                   useMonteCarlo>>
    /\ UNCHANGED fnVars

Init ==
    /\ expression = InitialExpression
    /\ numSimulations = InitialSimulations
    /\ HomeInit
    /\ pc = "home"
    /\ parsed = Returned(<<>>)
    /\ exactResults = <<>>
    /\ mcResults = <<>>

Next ==
    \/ RunEffect
    \/ \E s \in UIExpressions : SetExpression(s)
    \/ \E text \in SimulationTexts : SetNumSimulations(text)
    \/ \E op \in Operations : SetOperation(op)
    \/ SetUseMonteCarlo
    \/ ClickCompute

Spec == Init /\ [][Next]_vars

----------------------------------------------------------------------------
(* stats and chartData, computed on every render from the state. *)

\* Math.min(...xs) and Math.max(...xs) of a non-empty sequence of numbers
MathMin(xs) == CHOOSE m \in {xs[k] : k \in 1..Len(xs)} : \A k \in 1..Len(xs) : m <= xs[k]
MathMax(xs) == CHOOSE m \in {xs[k] : k \in 1..Len(xs)} : \A k \in 1..Len(xs) : m >= xs[k]

stats ==
    [min |-> IF Len(distribution) # 0 THEN MathMin(distribution) ELSE 0,
     max |-> IF Len(distribution) # 0 THEN MathMax(distribution) ELSE 0]

\* a / b of JavaScript, kept as the pair it divides
Quotient(a, b) == [num |-> a, den |-> b]

\* distribution.filter(x => x === v).length
FilterCount(v) == Len(SelectSeq(distribution, LAMBDA x : x = v))

\* chartData charting the raw counts in both modes
chartDataRaw ==
    LET st == stats
    IN  [labels |-> [i \in 1..(st.max - st.min + 1) |-> (i - 1) + st.min],
         data   |-> [i \in 1..(st.max - st.min + 1) |->
                        Quotient(FilterCount((i - 1) + st.min), 1)]]

chartData ==
    LET st == stats
    IN  [labels |-> [i \in 1..(st.max - st.min + 1) |-> (i - 1) + st.min],
         data   |-> [i \in 1..(st.max - st.min + 1) |->
                        IF useMonteCarlo
                        THEN Quotient(FilterCount((i - 1) + st.min), numSimulations)
                        ELSE Quotient(FilterCount((i - 1) + st.min), Len(distribution))]]

----------------------------------------------------------------------------
(* What the claims speak of, stated without the functions above. *)

\* how many entries of xs equal v
Occurrences(xs, v) == Cardinality({k \in DOMAIN xs : xs[k] = v})

RECURSIVE SumOf(_)
SumOf(xs) == IF xs = <<>> THEN 0 ELSE Head(xs) + SumOf(Tail(xs))

RECURSIVE Power(_, _)
Power(b, n) == IF n = 0 THEN 1 ELSE b * Power(b, n - 1)

\* the product over all terms of sides^trial
RECURSIVE OutcomeCount(_)
OutcomeCount(rolls) ==
    IF rolls = <<>> THEN 1
    ELSE Power(Head(rolls).sides, Head(rolls).trial) * OutcomeCount(Tail(rolls))

\* one entry per die of the terms: the number of its sides
RECURSIVE SidesPerDie(_)
SidesPerDie(rolls) ==
    IF rolls = <<>> THEN <<>>
    ELSE [j \in 1..Head(rolls).trial |-> Head(rolls).sides] \o SidesPerDie(Tail(rolls))

\* every assignment of a face in 1..sides to each die
FaceAssignments(rolls) ==
    LET sd == SidesPerDie(rolls)
        m  == CHOOSE x \in {1} \cup {sd[k] : k \in 1..Len(sd)} :
                  \A k \in 1..Len(sd) : sd[k] <= x
    IN  {a \in [1..Len(sd) -> 1..m] : \A k \in 1..Len(sd) : a[k] <= sd[k]}

\* every term has an integer trial >= 1 and an integer sides >= 1
WellFormed(rolls) ==
    \A k \in 1..Len(rolls) :
        /\ ~IsNaN(rolls[k].trial) /\ rolls[k].trial >= 1
        /\ ~IsNaN(rolls[k].sides) /\ rolls[k].sides >= 1

AllDigits(s) == s # <<>> /\ \A i \in 1..Len(s) : s[i] \in {DecDigits[k] : k \in 1..10}

\* the value of a string of decimal digits
RECURSIVE Decimal(_)
Decimal(s) ==
    IF s = <<>> THEN 0
    ELSE 10 * Decimal(SubSeq(s, 1, Len(s) - 1))
         + (CHOOSE k \in 0..9 : DecDigits[k + 1] = s[Len(s)])

\* s is <digits>d<digits>
IsDiceTerm(s) ==
    \E i \in 1..Len(s) :
        s[i] = "d" /\ AllDigits(SubSeq(s, 1, i - 1)) /\ AllDigits(Drop(s, i + 1))

\* the term a component <digits>d<digits> or <digits> stands for
TermOf(s) ==
    IF AllDigits(s) THEN [trial |-> Decimal(s), sides |-> 1]
    ELSE LET i == CHOOSE k \in 1..Len(s) : s[k] = "d"
         IN  [trial |-> Decimal(SubSeq(s, 1, i - 1)), sides |-> Decimal(Drop(s, i + 1))]

\* the pieces of s between the characters of seps
RECURSIVE Pieces(_, _)
Pieces(s, seps) ==
    IF \A i \in 1..Len(s) : s[i] \notin seps THEN <<s>>
    ELSE LET i == CHOOSE k \in 1..Len(s) :
                      s[k] \in seps /\ \A j \in 1..(k - 1) : s[j] \notin seps
         IN  <<SubSeq(s, 1, i - 1)>> \o Pieces(Drop(s, i + 1), seps)

\* s is a chain of dice terms and integers joined by the characters of seps
IsChain(s, seps) ==
    \A i \in 1..Len(Pieces(s, seps)) :
        IsDiceTerm(Pieces(s, seps)[i]) \/ AllDigits(Pieces(s, seps)[i])

OperatorChars == {"+", "-", "*", "/"}

----------------------------------------------------------------------------
(* C1 - getExactDistribution enumerates every combination of faces. *)

\* C1: for terms with trial >= 1 and sides >= 1 that parseDiceExpression returned,
\* getExactDistribution has, for every value v, as many entries equal to v as there
\* are assignments of a face to each die that sum to v, and its length is the
\* product over the terms of sides^trial.
C1_ExactEnumeratesFaces ==
    (pc \in {"exact", "sampled"} /\ WellFormed(parsed.value)) =>
        /\ Len(exactResults) = OutcomeCount(parsed.value)
        /\ LET assignments == FaceAssignments(parsed.value)
           IN  \A v \in 0..(MaxDice * MaxSides) :
                  Occurrences(exactResults, v) =
                      Cardinality({a \in assignments : SumOf(a) = v})
        /\ \A k \in 1..Len(exactResults) : exactResults[k] \in 0..(MaxDice * MaxSides)

\* 1d6+1d6 has been evaluated: 36 entries, 7 six times, 2 and 12 once each
C1_Witness ==
    /\ pc = "exact"
    /\ expression = <<"1", "d", "6", "+", "1", "d", "6">>
    /\ WellFormed(parsed.value)
    /\ Len(exactResults) = 36
    /\ Occurrences(exactResults, 7) = 6
    /\ Occurrences(exactResults, 2) = 1
    /\ Occurrences(exactResults, 12) = 1

----------------------------------------------------------------------------
(* C2 - Monte Carlo values lie within the exact distribution's bounds. *)

\* C2: getMonteCarloDistribution returns exactly N values, each between the minimum
\* and the maximum of what getExactDistribution returns for the same terms.
C2_MonteCarloWithinExact ==
    pc = "sampled" =>
        /\ Len(mcResults) = numSimulations
        /\ \A i \in 1..Len(mcResults) :
              /\ exactResults # <<>>
              /\ \A k \in 1..Len(exactResults) : ~IsNaN(exactResults[k])
              /\ ~IsNaN(mcResults[i])
              /\ \E k \in 1..Len(exactResults) : exactResults[k] <= mcResults[i]
              /\ \E k \in 1..Len(exactResults) : exactResults[k] >= mcResults[i]

----------------------------------------------------------------------------
(* C3 - malformed strings. *)

\* some '+'-separated component is neither <digits>d<digits> nor <digits>
Malformed(s) == ~IsChain(s, {"+"})

\* C3: parseDiceExpression throws on every malformed string.
C3_MalformedThrows ==
    (pc # "start" /\ Malformed(expression)) => parsed.threw

----------------------------------------------------------------------------
(* C4 - which chains parseDiceExpression accepts, and what it records. *)

OperatorAtDice(s) ==
    \E i \in 1..Len(Pieces(s, {"+"})) :
        /\ Includes(Pieces(s, {"+"})[i], "d")
        /\ \E c \in {"-", "*", "/", "(", ")"} : Includes(Pieces(s, {"+"})[i], c)

----------------------------------------------------------------------------
(* C5 - white space. *)

\* C5: when the string without its white space parses, the string parses too, with
\* the same result.
C5_WhiteSpaceInsignificant ==
    (pc # "start" /\ ~parseDiceExpression(StripWhiteSpace(expression)).threw) =>
        parsed = parseDiceExpression(StripWhiteSpace(expression))

----------------------------------------------------------------------------
(* C6 - every returned term has trial >= 1 and sides >= 1. *)

\* C6: every term parseDiceExpression returns has an integer count >= 1 and an
\* integer sides >= 1.
C6_TermsPositive ==
    (pc # "start" /\ ~parsed.threw) => WellFormed(parsed.value)

----------------------------------------------------------------------------
(* C7 - a constant-only expression. *)

\* C7: for an input that is one positive integer n, getExactDistribution returns
\* only entries equal to n, and getMonteCarloDistribution returns N entries all
\* equal to n, whatever the random source yields.
C7_ConstantOnly ==
    (AllDigits(expression) /\ Decimal(expression) >= 1) =>
        /\ pc \in {"exact", "sampled"} =>
              /\ exactResults # <<>>
              /\ \A k \in 1..Len(exactResults) : exactResults[k] = Decimal(expression)
        /\ pc = "sampled" =>
              /\ Len(mcResults) = numSimulations
              /\ \A i \in 1..Len(mcResults) : mcResults[i] = Decimal(expression)

\* "5" has been evaluated exactly and sampled MaxSims times
C7_Witness ==
    /\ pc = "sampled"
    /\ expression = <<"5">>
    /\ exactResults = <<5>>
    /\ numSimulations = MaxSims
    /\ mcResults = [i \in 1..MaxSims |-> 5]

----------------------------------------------------------------------------
(* C8 - the frequency table of the chart. *)

\* the number q.num / q.den is the integer c
QuotientIs(q, c) == ~IsNaN(q.den) /\ q.den # 0 /\ q.num = c * q.den

\* C8 as stated: in Monte Carlo mode the table holds the raw occurrence count of
\* each value, in exact mode the count divided by the number of outcomes.
C8_RawCountInMonteCarlo ==
    pc = "home" =>
        LET cd == chartData
        IN  \A i \in 1..Len(cd.data) :
                IF useMonteCarlo
                THEN QuotientIs(cd.data[i], Occurrences(distribution, cd.labels[i]))
                ELSE cd.data[i] =
                         Quotient(Occurrences(distribution, cd.labels[i]),
                                  Len(distribution))

\* C8 amended: the table maps each integer value in [min, max] of the stored
\* distribution to its occurrence count divided by numSimulations in Monte Carlo
\* mode, and divided by the number of outcomes in exact mode.
C8_CountOverDivisor ==
    pc = "home" =>
        LET cd == chartData
            st == stats
        IN  /\ Len(cd.labels) = st.max - st.min + 1
            /\ Len(cd.data) = st.max - st.min + 1
            /\ \A k \in 1..Len(distribution) :
                  st.min <= distribution[k] /\ distribution[k] <= st.max
            /\ \A i \in 1..Len(cd.labels) :
                  /\ cd.labels[i] = st.min + (i - 1)
                  /\ cd.data[i].num = Occurrences(distribution, cd.labels[i])
                  /\ cd.data[i].den =
                         IF useMonteCarlo THEN numSimulations ELSE Len(distribution)

\* Monte Carlo mode, two simulations stored, and a value that occurred once is
\* charted as 1 / 2
C8_Witness ==
    /\ pc = "home"
    /\ ~effectPending
    /\ useMonteCarlo
    /\ numSimulations = 2
    /\ Len(distribution) = 2
    /\ LET cd == chartData
       IN  \E i \in 1..Len(cd.data) : cd.data[i] = Quotient(1, 2)

----------------------------------------------------------------------------
(* C9 - computeDistribution and a parse error. *)

\* xs is what a successful computation on the current state can return: the exact
\* distribution, or numSimulations sums of the faces the random source can yield
IsNewResult(xs) ==
    LET r == parseDiceExpression(expression)
    IN  IF useMonteCarlo
        THEN /\ Len(xs) = LoopCount(numSimulations)
             /\ \A i \in 1..Len(xs) :
                    \E faces \in DrawSeqs(DieSides(r.value, 1)) :
                        xs[i] = Current(0, faces)
        ELSE xs = getExactDistribution(r.value)

\* C9: when computeDistribution runs and parsing throws, error becomes the thrown
\* message and distribution stays as it was; when it succeeds, distribution is the
\* new result and error is the empty string.
C9_ErrorKeepsDistribution ==
    [][(pc = "home" /\ effectPending /\ (useMonteCarlo \/ shouldCompute)) =>
          LET r == parseDiceExpression(expression)
          IN  IF r.threw
              THEN /\ error' = r.message
                   /\ error' = BaseDiceMessage
                   /\ distribution' = distribution
              ELSE /\ error' = ""
                   /\ IsNewResult(distribution')]_vars

\* a computation has failed on the current expression, and the distribution of an
\* earlier computation is still stored
C9_Witness ==
    /\ pc = "home"
    /\ ~effectPending
    /\ parseDiceExpression(expression).threw
    /\ error = BaseDiceMessage
    /\ distribution # <<>>

----------------------------------------------------------------------------
(* C10 - the chart's values sum to 1. *)

\* C10: once the effect has run and the stored distribution is non-empty, the
\* divisor of every chart value is the length of the distribution, so that the
\* values sum to 1.
C10_ChartSumsToOne ==
    (pc = "home" /\ ~effectPending /\ distribution # <<>>) =>
        LET cd == chartData
        IN  /\ \A i \in 1..Len(cd.data) : cd.data[i].den = Len(distribution)
            /\ SumOf([i \in 1..Len(cd.data) |-> cd.data[i].num]) = Len(distribution)

----------------------------------------------------------------------------
(* C11 - recomputation is gated by the mode. *)

\* what holds of every state of the component: at most one computation follows a
\* change, shouldCompute is true only between a Compute click and the effect, and
\* in Monte Carlo mode a finished effect chain has computed exactly once
GatedStates ==
    pc = "home" =>
        /\ computations \in {0, 1}
        /\ ~effectPending => ~shouldCompute
        /\ (~effectPending /\ useMonteCarlo) => computations = 1
        /\ shouldCompute => (~useMonteCarlo /\ effectPending /\ computations = 0)

\* what holds of every step of the component
GatedSteps ==
    pc = "home" =>
        \* exact mode, no Compute click outstanding: no step computes, and the
        \* stored distribution and the error stay as they are
        /\ (~useMonteCarlo /\ ~shouldCompute) =>
              /\ distribution' = distribution
              /\ error' = error
              /\ computations' \in {0, computations}
        \* exact mode, the effect after an edit or after the computation of a
        \* click: it ends the chain without computing
        /\ (~useMonteCarlo /\ ~shouldCompute /\ effectPending) =>
              /\ ~effectPending'
              /\ computations' = computations
        \* exact mode, the effect after a Compute click: one computation, and
        \* shouldCompute is false again
        /\ (~useMonteCarlo /\ shouldCompute) =>
              /\ computations' = 1
              /\ ~shouldCompute'
              /\ IF parseDiceExpression(expression).threw
                 THEN distribution' = distribution
                 ELSE distribution' =
                          getExactDistribution(parseDiceExpression(expression).value)
        \* Monte Carlo mode: a change of expression, simulation count or operation
        \* schedules the effect
        /\ (useMonteCarlo /\ ~effectPending /\ useMonteCarlo'
              /\ <<expression, numSimulations, operation>>'
                   # <<expression, numSimulations, operation>>) =>
              /\ effectPending'
              /\ computations' = 0
        \* Monte Carlo mode: the scheduled effect computes once and ends the chain
        /\ (useMonteCarlo /\ effectPending) =>
              /\ computations' = computations + 1
              /\ ~effectPending'

\* C11: while Monte Carlo mode is off, editing the expression runs no computation
\* and the stored distribution stays unchanged until Compute is clicked; a Compute
\* click causes exactly one computation, after which shouldCompute is false and
\* the effect chain stops; while Monte Carlo mode is on, every change of
\* expression, simulation count or operation causes exactly one computation.
C11_GatedByMode == [](GatedStates) /\ [][GatedSteps]_vars

\* exact mode: the chain of a Compute click on "1d6" has ended after its one
\* computation, with the six outcomes stored
C11_Witness ==
    /\ pc = "home"
    /\ ~useMonteCarlo
    /\ ~effectPending
    /\ ~shouldCompute
    /\ computations = 1
    /\ expression = InitialExpression
    /\ distribution = <<1, 2, 3, 4, 5, 6>>

====
